---- MODULE Spec2Model ----
(***************************************************************************)
(* Model of svg-shapes-pack (src/index.ts): the catalogue of SVG templates,*)
(* the options merge, the render pipeline (addColorsToSvg, addViewBox and  *)
(* the placeholder substitution) and the three public operations           *)
(* getRandomSvg, getSvgById and getAllSvgs, with the module-level          *)
(* gradientIdCounter as the only mutable program state.                    *)
(*                                                                         *)
(* Text is text: a template, a markup string, a colour and an id are       *)
(* strings, searched and cut character by character, and                   *)
(* String.prototype.replace expands the '$' patterns of its replacement    *)
(* string.  An options object is a function whose domain is the set of     *)
(* keys the caller supplied: an absent key reads as undefined.             *)
(***************************************************************************)
EXTENDS Integers, Sequences, FiniteSets, TLC

VARIABLES gradientIdCounter, last, issued, nMarkups, nLookupFailures

vars == <<gradientIdCounter, last, issued, nMarkups, nLookupFailures>>

\* Cap on gradientIdCounter in the guards of the actions.
MaxCounter == 3

(***************************************************************************)
(* Strings.                                                                *)
(***************************************************************************)

\* s.substring(i - 1): the text of s from position i (1-based) on.
From(s, i) == IF i > Len(s) THEN "" ELSE SubSeq(s, i, Len(s))

\* The character of s at position i, "" past the end.
CharAt(s, i) == IF i \in 1..Len(s) THEN SubSeq(s, i, i) ELSE ""

\* pat occurs in s at position i: its first character does, and all of it.
OccursAt(s, pat, i) ==
  /\ SubSeq(s, i, i) = SubSeq(pat, 1, 1)
  /\ SubSeq(s, i, i + Len(pat) - 1) = pat

\* The positions from `from` on at which pat occurs in s.
Positions(s, pat, from) ==
  {i \in from..(Len(s) - Len(pat) + 1) : OccursAt(s, pat, i)}

\* s.indexOf(pat, from - 1) + 1: the first such position, 0 when none.  The
\* text is searched a stretch of 32 positions at a time.
RECURSIVE IndexOf(_, _, _)
IndexOf(s, pat, from) ==
  LET end == Len(s) - Len(pat) + 1
      to == IF from + 31 < end THEN from + 31 ELSE end
      P == {i \in from..to : OccursAt(s, pat, i)}
  IN  IF from > end
        THEN 0
        ELSE IF P /= {}
               THEN CHOOSE i \in P : \A j \in P : i <= j
               ELSE IndexOf(s, pat, to + 1)

\* s.includes(pat)
Includes(s, pat) == IndexOf(s, pat, 1) /= 0

DecimalDigits == "0123456789"

HexDigits == "0123456789abcdef"

HexDigitsUpper == "0123456789ABCDEF"

IsDigit(c) == Len(c) = 1 /\ Includes(DecimalDigits, c)

DigitValue(c) == IndexOf(DecimalDigits, c, 1) - 1

IsHexDigit(c) ==
  Len(c) = 1 /\ (Includes(HexDigits, c) \/ Includes(HexDigitsUpper, c))

HexDigitValue(c) ==
  IF Includes(HexDigits, c) THEN IndexOf(HexDigits, c, 1) - 1
                            ELSE IndexOf(HexDigitsUpper, c, 1) - 1

\* The vertical tab, U+000B, which has no escape in a string.
VerticalTab == ""

\* The no-break space, U+00A0.
NoBreakSpace == " "

\* The byte order mark, U+FEFF.
ByteOrderMark == "﻿"

\* The Ogham space mark, U+1680.
OghamSpaceMark == " "

\* The white space String.prototype.trim and parseInt strip: the six white
\* space characters of ASCII, and those beyond that a string can be written
\* with.  The rest (U+2000 to U+200A, U+2028, U+2029, U+202F, U+205F and
\* U+3000) cannot be written in a string and so occurs in none.
WhiteSpace ==
  {" ", "\n", "\t", "\r", "\f", VerticalTab, NoBreakSpace, ByteOrderMark,
   OghamSpaceMark}

IsSpace(c) == c \in WhiteSpace

\* The white space t begins with, and ends with.
LeadingSpace(t) ==
  {w \in WhiteSpace : Len(w) <= Len(t) /\ SubSeq(t, 1, Len(w)) = w}

TrailingSpace(t) ==
  {w \in WhiteSpace :
     Len(w) <= Len(t) /\ SubSeq(t, Len(t) - Len(w) + 1, Len(t)) = w}

RECURSIVE TrimStart(_)
TrimStart(t) ==
  IF LeadingSpace(t) = {}
    THEN t
    ELSE TrimStart(From(t, Len(CHOOSE w \in LeadingSpace(t) : TRUE) + 1))

RECURSIVE TrimEnd(_)
TrimEnd(t) ==
  IF TrailingSpace(t) = {}
    THEN t
    ELSE TrimEnd(SubSeq(t, 1,
                        Len(t) - Len(CHOOSE w \in TrailingSpace(t) : TRUE)))

Trim(t) == TrimEnd(TrimStart(t))

\* The two quote characters of the patterns $` and $'.
QuotePair == "`'"

BackQuote == SubSeq(QuotePair, 1, 1)

SingleQuote == SubSeq(QuotePair, 2, 2)

\* GetSubstitution of String.prototype.replace: the replacement string with
\* $$ as "$", $& as the matched text, $` and $' as the text before and after
\* the match, and $n or $nn as the n-th capture when the pattern has one;
\* any other '$' stands for itself.
RECURSIVE GetSubstitution(_, _, _, _, _)
GetSubstitution(matched, before, after, captures, replacement) ==
  LET d == IndexOf(replacement, "$", 1)
      c1 == CharAt(replacement, d + 1)
      c2 == CharAt(replacement, d + 2)
      n1 == DigitValue(c1)
      n2 == DigitValue(c1) * 10 + DigitValue(c2)
      Then(text, used) ==
        SubSeq(replacement, 1, d - 1) \o text
          \o GetSubstitution(matched, before, after, captures,
                             From(replacement, d + used))
  IN  IF d = 0 THEN replacement
      ELSE CASE c1 = "$" -> Then("$", 2)
             [] c1 = "&" -> Then(matched, 2)
             [] c1 = BackQuote -> Then(before, 2)
             [] c1 = SingleQuote -> Then(after, 2)
             [] IsDigit(c1) /\ IsDigit(c2) /\ n2 \in 1..Len(captures) ->
                  Then(captures[n2], 3)
             [] IsDigit(c1) /\ ~(IsDigit(c2) /\ n2 \in 1..Len(captures))
                  /\ n1 \in 1..Len(captures) ->
                  Then(captures[n1], 2)
             [] OTHER -> Then("$", 1)

(***************************************************************************)
(* The catalogue.                                                          *)
(***************************************************************************)

\* The .svg files of the svgs-min folder, in directory-listing order: three
\* sample templates.  The first has no viewBox anywhere and uses ${color}
\* twice, the second has a viewBox on its root element, the third has a
\* viewBox only on a nested element.  White space surrounds the first two and
\* a byte order mark heads the third.
SvgFiles ==
  << "<svg width=\"${width}\" height=\"${height}\"><path d=\"M1\" fill=\"${color}\" stroke=\"${color}\"/></svg>" \o VerticalTab \o "\n",
     "\n<svg viewBox=\"0 0 100 100\" width=\"${width}\" height=\"${height}\"><path d=\"M2\" fill=\"${color}\"/></svg>",
     ByteOrderMark \o "<svg width=\"${width}\" height=\"${height}\"><symbol viewBox=\"0 0 10 10\"><path d=\"M3\" fill=\"${color}\"/></symbol></svg>" >>

\* svgMap[index + 1] = svgCode.trim() for every file of the listing.
GenerateSVGMap(files) == [k \in 1..Len(files) |-> Trim(files[k])]

svgMap == GenerateSVGMap(SvgFiles)

\* The catalogue size N.
CatalogueSize == Cardinality(DOMAIN svgMap)

\* A wrong build of svgList, pushing the templates in descending key order.
svgListReversed ==
  [i \in 1..CatalogueSize |-> svgMap[CatalogueSize + 1 - i]]

\* for (const key in svgMap) svgList.push(svgMap[key]): integer keys are
\* visited in ascending order.  The JavaScript array index j is position j + 1
\* of this sequence.
svgList == [i \in 1..CatalogueSize |-> svgMap[i]]

\* svgList[j] is defined for the JavaScript index j.
Defined(j) == j \in 0..(Len(svgList) - 1)

\* svgList[j], for a defined index j.
SvgListAt(j) == svgList[j + 1]

(***************************************************************************)
(* Options.                                                                *)
(***************************************************************************)

defaultOptions ==
  [color |-> "blue", size |-> 16, gradient |-> FALSE,
   gradientStartColor |-> "blue", gradientStopColor |-> "lightblue"]

\* The keys whose values are strings.
StringKeys == {"id", "color", "gradientStartColor", "gradientStopColor"}

Has(o, k) == k \in DOMAIN o

\* JavaScript truthiness of o[k]: a non-empty string, a non-zero number, true.
Truthy(o, k) ==
  /\ Has(o, k)
  /\ CASE k \in StringKeys -> o[k] /= ""
       [] k = "size" -> o[k] /= 0
       [] OTHER -> o[k] = TRUE

\* The filter of getMergedOptions: value !== undefined && value !== "".  An
\* absent key is the undefined value; only a string can equal "".
Kept(o) == {k \in DOMAIN o : k \in StringKeys => o[k] /= ""}

\* A wrong merge that lets an empty string override the default.
getMergedOptionsKeepEmpty(options) ==
  [k \in (DOMAIN defaultOptions) \cup (DOMAIN options) |->
     IF k \in DOMAIN options THEN options[k] ELSE defaultOptions[k]]

\* { ...defaultOptions, ...filtered entries of options }
getMergedOptions(options) ==
  [k \in (DOMAIN defaultOptions) \cup Kept(options) |->
     IF k \in Kept(options) THEN options[k] ELSE defaultOptions[k]]

(***************************************************************************)
(* The render pipeline.                                                    *)
(***************************************************************************)

\* `grad-${n}`
GradientId(n) == "grad-" \o ToString(n)

\* `url(#${gradientId})`
UrlRef(gradientId) == "url(#" \o gradientId \o ")"

\* The <defs> block of addColorsToSvg, with the line breaks and indentation
\* of the template literal.
GradientDefinition(gradientId, start, stop) ==
  "<defs>\n      <linearGradient id=\"" \o gradientId
    \o "\" x1=\"0\" y1=\"0\" x2=\"1\" y2=\"1\">\n"
    \o "        <stop offset=\"5%\" stop-color=\"" \o start \o "\" />\n"
    \o "        <stop offset=\"95%\" stop-color=\"" \o stop \o "\" />\n"
    \o "      </linearGradient>\n    </defs>"

\* A wrong addColorsToSvg that mints an identifier only for a gradient.
addColorsToSvgGradientOnly(o, counter) ==
  [fill |-> IF o.gradient THEN UrlRef(GradientId(counter)) ELSE o.color,
   gradientDefinition |->
     IF o.gradient
       THEN GradientDefinition(GradientId(counter), o.gradientStartColor,
                               o.gradientStopColor)
       ELSE "",
   counter |-> IF o.gradient THEN counter + 1 ELSE counter]

\* A wrong addColorsToSvg that never advances the counter.
addColorsToSvgNoIncrement(o, counter) ==
  [fill |-> IF o.gradient THEN UrlRef(GradientId(counter)) ELSE o.color,
   gradientDefinition |->
     IF o.gradient
       THEN GradientDefinition(GradientId(counter), o.gradientStartColor,
                               o.gradientStopColor)
       ELSE "",
   counter |-> counter]

\* addColorsToSvg called when gradientIdCounter = counter: the fill, the
\* gradient definition (the empty string when gradient is false) and the
\* counter after gradientIdCounter++, which runs on every call.
addColorsToSvg(o, counter) ==
  [fill |-> IF o.gradient THEN UrlRef(GradientId(counter)) ELSE o.color,
   gradientDefinition |->
     IF o.gradient
       THEN GradientDefinition(GradientId(counter), o.gradientStartColor,
                               o.gradientStopColor)
       ELSE "",
   counter |-> counter + 1]

\* svgTemplate.includes("viewBox"): the text occurs anywhere in the template.
IncludesViewBox(t) == Includes(t, "viewBox")

\* The match of /<svg([^>]*)>/ in t (lazy or greedy, the same match): from
\* the first "<svg" that has a '>' after it, to the first '>' after it.  The
\* first "<svg" of all is that one, every later one having fewer '>' after
\* it.  open and close are 0 when there is no match.
SvgTag(t) ==
  LET i == IndexOf(t, "<svg", 1)
      j == IF i = 0 THEN 0 ELSE IndexOf(t, ">", i + 4)
  IN  IF j = 0 THEN [open |-> 0, close |-> 0] ELSE [open |-> i, close |-> j]

\* t.replace(/<svg([^>]*)>/, replacement): the first match replaced by the
\* expanded replacement string, $1 the text between "<svg" and '>'.
ReplaceSvgTag(t, replacement) ==
  LET tag == SvgTag(t)
      before == SubSeq(t, 1, tag.open - 1)
      after == From(t, tag.close + 1)
  IN  IF tag.close = 0
        THEN t
        ELSE before
               \o GetSubstitution(SubSeq(t, tag.open, tag.close), before, after,
                                  << SubSeq(t, tag.open + 4, tag.close - 1) >>,
                                  replacement)
               \o after

\* addViewBox: when the template text holds no "viewBox",
\* replace(/<svg([^>]*?)>/, `<svg$1 viewBox="0 0 200 200">`).
addViewBox(svgTemplate) ==
  IF ~IncludesViewBox(svgTemplate)
    THEN ReplaceSvgTag(svgTemplate, "<svg$1 viewBox=\"0 0 200 200\">")
    ELSE svgTemplate

\* replace(/<svg([^>]*)>/, `<svg$1>${gradientDefinition}`)
InjectDefinition(t, gradientDefinition) ==
  ReplaceSvgTag(t, "<svg$1>" \o gradientDefinition)

\* The text of t from position from on, with the matches of placeholder
\* among the positions P each replaced by the expansion of value there; a
\* match is the first position of P not before from.
RECURSIVE ReplaceFrom(_, _, _, _, _)
ReplaceFrom(t, placeholder, value, P, from) ==
  LET Q == {p \in P : p >= from}
      i == CHOOSE p \in Q : \A q \in Q : p <= q
  IN  IF Q = {}
        THEN From(t, from)
        ELSE SubSeq(t, from, i - 1)
               \o GetSubstitution(placeholder, SubSeq(t, 1, i - 1),
                                  From(t, i + Len(placeholder)), <<>>, value)
               \o ReplaceFrom(t, placeholder, value, Q \ {i},
                              i + Len(placeholder))

\* replace(/\${...}/g, value): every occurrence is replaced, value being a
\* replacement string.
ReplaceAll(t, placeholder, value) ==
  ReplaceFrom(t, placeholder, value, Positions(t, placeholder, 1), 1)

\* size ? size.toString() : "16"
SizeText(size) == IF size /= 0 THEN ToString(size) ELSE "16"

\* The four chained replace calls on the template with its viewBox.
Substitute(svgTemplate, gradientDefinition, fill, size) ==
  ReplaceAll(
    ReplaceAll(
      ReplaceAll(InjectDefinition(svgTemplate, gradientDefinition),
                 "${color}", fill),
      "${width}", SizeText(size)),
    "${height}", SizeText(size))

\* One render of svgTemplate under the merged options, with the counter at
\* counter: the markup and the counter afterwards.
Render(svgTemplate, merged, counter) ==
  LET c == addColorsToSvg(merged, counter)
  IN  [markup |-> Substitute(addViewBox(svgTemplate), c.gradientDefinition,
                             c.fill, merged.size),
       counter |-> c.counter]

(***************************************************************************)
(* parseInt.                                                               *)
(***************************************************************************)

\* The value of the longest prefix of decimal digits of s, from acc.
RECURSIVE ParseDigits(_, _)
ParseDigits(s, acc) ==
  IF IsDigit(CharAt(s, 1))
    THEN ParseDigits(From(s, 2), acc * 10 + DigitValue(CharAt(s, 1)))
    ELSE acc

\* The value of the longest prefix of hexadecimal digits of s, from acc.
RECURSIVE ParseHexDigits(_, _)
ParseHexDigits(s, acc) ==
  IF IsHexDigit(CharAt(s, 1))
    THEN ParseHexDigits(From(s, 2), acc * 16 + HexDigitValue(CharAt(s, 1)))
    ELSE acc

\* parseInt(s) without a radix: leading white space is skipped, one sign is
\* read, then the longest prefix of digits, hexadecimal after 0x or 0X and
\* decimal otherwise; NaN when there is no digit.
parseInt(s) ==
  LET t == TrimStart(s)
      u == IF CharAt(t, 1) \in {"+", "-"} THEN From(t, 2) ELSE t
      hex == SubSeq(u, 1, IF Len(u) < 2 THEN Len(u) ELSE 2) \in {"0x", "0X"}
      sign == IF CharAt(t, 1) = "-" THEN 0 - 1 ELSE 1
  IN  IF hex
        THEN IF IsHexDigit(CharAt(u, 3))
               THEN [nan |-> FALSE, n |-> sign * ParseHexDigits(From(u, 3), 0)]
               ELSE [nan |-> TRUE, n |-> 0]
        ELSE IF IsDigit(CharAt(u, 1))
               THEN [nan |-> FALSE, n |-> sign * ParseDigits(u, 0)]
               ELSE [nan |-> TRUE, n |-> 0]

(***************************************************************************)
(* The three operations, as functions of the arguments and the counter.    *)
(* Each returns the status ("ok" or the error thrown), the markup strings  *)
(* returned, the svgList index and the merged options of each render, and  *)
(* the counter afterwards.                                                 *)
(***************************************************************************)

\* getRandomSvg with Math.floor(Math.random() * svgList.length) = r.
getRandomSvg(options, r, counter) ==
  LET merged == getMergedOptions(options)
      out == Render(SvgListAt(r), merged, counter)
  IN  [status |-> "ok", result |-> << out.markup >>, src |-> << r >>,
       merged |-> << merged >>, counter |-> out.counter]

\* The try block of getSvgById.  svgList[parseInt(options.id)] is undefined
\* for NaN and for an index outside the list, and addViewBox(undefined)
\* throws a TypeError after addColorsToSvg has run.
getSvgByIdTry(options, counter) ==
  IF Truthy(options, "id")
    THEN LET merged == getMergedOptions(options)
             j == parseInt(options.id)
         IN  IF ~j.nan /\ Defined(j.n)
               THEN LET out == Render(SvgListAt(j.n), merged, counter)
                    IN  [status |-> "ok", result |-> << out.markup >>,
                         src |-> << j.n >>, merged |-> << merged >>,
                         counter |-> out.counter]
               ELSE [status |-> "TypeError", result |-> <<>>, src |-> <<>>,
                     merged |-> <<>>,
                     counter |-> addColorsToSvg(merged, counter).counter]
    ELSE [status |-> "ID is required", result |-> <<>>, src |-> <<>>,
          merged |-> <<>>, counter |-> counter]

\* A wrong catch clause that rethrows the error it caught.
CatchRethrow(r) == r

\* catch (error) { throw new Error("Invalid ID"); }
Catch(r) == IF r.status = "ok" THEN r ELSE [r EXCEPT !.status = "Invalid ID"]

getSvgById(options, counter) == Catch(getSvgByIdTry(options, counter))

\* Object.keys(ColorPairingMap), in insertion order.
ColorKeys ==
  << "red", "pink", "purple", "blue", "cyan", "green", "yellow", "orange" >>

ColorPairingMap ==
  [red |-> << "red", "pink" >>, pink |-> << "pink", "purple" >>,
   purple |-> << "purple", "blue" >>, blue |-> << "blue", "cyan" >>,
   cyan |-> << "cyan", "green" >>, green |-> << "green", "yellow" >>,
   yellow |-> << "yellow", "orange" >>, orange |-> << "orange", "red" >>]

\* The condition of getAllSvgs' if statement.
ExplicitStyling(options) ==
  \/ Truthy(options, "color")
  \/ /\ Truthy(options, "gradient")
     /\ Truthy(options, "gradientStartColor")
     /\ Truthy(options, "gradientStopColor")

\* A wrong random branch that passes the caller's gradient flag on.
RandomOptionsCallerGradient(options, k) ==
  LET randomColor == ColorKeys[k + 1]
  IN  [color |-> randomColor,
       size |-> IF Truthy(options, "size") THEN options.size ELSE 16,
       gradient |-> Truthy(options, "gradient"),
       gradientStartColor |-> ColorPairingMap[randomColor][1],
       gradientStopColor |-> ColorPairingMap[randomColor][2]]

\* The options object of the random branch, for the drawn key index
\* k = Math.floor(Math.random() * Object.keys(ColorPairingMap).length).
RandomOptions(options, k) ==
  LET randomColor == ColorKeys[k + 1]
  IN  [color |-> randomColor,
       size |-> IF Truthy(options, "size") THEN options.size ELSE 16,
       gradient |-> TRUE,
       gradientStartColor |-> ColorPairingMap[randomColor][1],
       gradientStopColor |-> ColorPairingMap[randomColor][2]]

\* The merged options of the render of svgList position i: the caller's in
\* the explicit branch, those of the i-th draw in the random branch.
MergedAt(options, draws, i) ==
  IF ExplicitStyling(options)
    THEN getMergedOptions(options)
    ELSE getMergedOptions(RandomOptions(options, draws[i]))

\* svgList.map(...) from position i on, the counter threaded through the
\* renders in order.
RECURSIVE MapRender(_, _, _, _)
MapRender(options, draws, i, counter) ==
  IF i > Len(svgList)
    THEN [result |-> <<>>, counter |-> counter]
    ELSE LET out == Render(svgList[i], MergedAt(options, draws, i), counter)
             rest == MapRender(options, draws, i + 1, out.counter)
         IN  [result |-> << out.markup >> \o rest.result,
              counter |-> rest.counter]

\* getAllSvgs, with draws[i] the key index drawn for svgList position i in
\* the random branch; the explicit branch draws nothing.
getAllSvgs(options, draws, counter) ==
  LET all == MapRender(options, draws, 1, counter)
  IN  [status |-> "ok", result |-> all.result,
       src |-> [i \in 1..Len(svgList) |-> i - 1],
       merged |-> [i \in 1..Len(svgList) |-> MergedAt(options, draws, i)],
       counter |-> all.counter]

(***************************************************************************)
(* What an observer reads off a markup string.                             *)
(***************************************************************************)

\* The text from position k of m up to the next double quote.
QuotedAt(m, k) == SubSeq(m, k, IndexOf(m, "\"", k) - 1)

\* The values of the attribute name (as in " fill=") in m.
AttributeValues(m, name) ==
  {QuotedAt(m, i + Len(name) + 1) : i \in Positions(m, name \o "\"", 1)}

\* The identifiers of the linearGradient definitions of m.
GradientIds(m) ==
  {QuotedAt(m, i + 20) : i \in Positions(m, "<linearGradient id=\"", 1)}

\* m holds a linearGradient definition.
GradientBearing(m) == GradientIds(m) /= {}

\* The values painted where the template held ${color}.
PaintValues(m) ==
  AttributeValues(m, " fill=") \cup AttributeValues(m, " stroke=")

\* The path data of m, which tells the templates apart.
Shape(m) == AttributeValues(m, " d=")

\* The root element's opening tag.
RootTag(m) == SubSeq(m, SvgTag(m).open, SvgTag(m).close)

\* The number of occurrences of pat in t.
Count(t, pat) == Cardinality(Positions(t, pat, 1))

\* The gradient identifiers of the gradient-bearing strings of a result, in
\* order.
RECURSIVE IssuedBy(_)
IssuedBy(result) ==
  IF result = <<>>
    THEN <<>>
    ELSE LET ids == GradientIds(Head(result))
         IN  (IF ids /= {} THEN << ids >> ELSE <<>>) \o IssuedBy(Tail(result))

(***************************************************************************)
(* State and actions.                                                      *)
(*   gradientIdCounter  the module-level counter                           *)
(*   last               the last call: operation, arguments and outcome    *)
(*   issued             history: the gradient identifiers of each          *)
(*                      gradient-bearing string returned so far            *)
(*   nMarkups           history: the number of strings returned so far     *)
(*   nLookupFailures    history: the number of getSvgById calls with a     *)
(*                      non-empty id that failed                           *)
(***************************************************************************)

NoCall ==
  [op |-> "none", options |-> <<>>, status |-> "ok", result |-> <<>>,
   src |-> <<>>, merged |-> <<>>, branch |-> "-"]

Init ==
  /\ gradientIdCounter = 0
  /\ last = NoCall
  /\ issued = <<>>
  /\ nMarkups = 0
  /\ nLookupFailures = 0

\* The call op(options) ended as out.
Returns(op, options, branch, out) ==
  /\ gradientIdCounter' = out.counter
  /\ last' = [op |-> op, options |-> options, status |-> out.status,
              result |-> out.result, src |-> out.src, merged |-> out.merged,
              branch |-> branch]
  /\ issued' = issued \o IssuedBy(out.result)
  /\ nMarkups' = nMarkups + Len(out.result)
  /\ nLookupFailures' =
       nLookupFailures
         + (IF out.status /= "ok" /\ Truthy(options, "id") THEN 1 ELSE 0)

GetRandomSvg(options, r) ==
  /\ gradientIdCounter + 1 <= MaxCounter
  /\ Returns("getRandomSvg", options, "-",
             getRandomSvg(options, r, gradientIdCounter))

GetSvgById(options) ==
  /\ gradientIdCounter + 1 <= MaxCounter
  /\ Returns("getSvgById", options, "-", getSvgById(options, gradientIdCounter))

GetAllSvgs(options, draws) ==
  /\ gradientIdCounter + Len(svgList) <= MaxCounter
  /\ Returns("getAllSvgs", options,
             IF ExplicitStyling(options) THEN "explicit" ELSE "random",
             getAllSvgs(options, draws, gradientIdCounter))

(***************************************************************************)
(* Arguments.                                                              *)
(***************************************************************************)

\* The ways to supply key k: not at all, or with a value of vals.
Field(k, vals) == {<<>>} \cup {k :> v : v \in vals}

OptionsOver(colors, sizes, gradients, starts, stops) ==
  {c @@ s @@ g @@ a @@ b :
     c \in Field("color", colors), s \in Field("size", sizes),
     g \in Field("gradient", gradients),
     a \in Field("gradientStartColor", starts),
     b \in Field("gradientStopColor", stops)}

\* Every combination of absent, empty and set fields, with colour names.
AllOptions ==
  OptionsOver({"", "purple"}, {0, 24}, BOOLEAN, {"", "red"}, {"", "yellow"})

\* A color that is a replacement pattern of String.prototype.replace.
PatternOptions == {[color |-> "$&"], [color |-> "$$"]}

\* The options of a single call.
CallOptions == AllOptions \cup PatternOptions

\* The id strings tried: none, empty, inside and outside the catalogue,
\* non-numeric, signed, padded, with a trailing letter and hexadecimal.
Ids ==
  {"", "0", "1", "2", "3", "12", "abc", "-1", " 2", "1x", "0x2",
   VerticalTab \o "1", NoBreakSpace \o "1"}

WithId(options) == {options} \cup {("id" :> id) @@ options : id \in Ids}

KeyIndexes == 0..(Len(ColorKeys) - 1)

\* The options of the call sequences, two of them with '$' patterns in their
\* colours.
SomeOptions ==
  { <<>>,
    [color |-> "$&"],
    [gradient |-> TRUE, gradientStartColor |-> "$1$&",
     gradientStopColor |-> "$$"] }

SomeIds == {"1", "3", "abc"}

SomeWithId(options) == {options} \cup {("id" :> id) @@ options : id \in SomeIds}

\* The draws of one getAllSvgs call in the random branch: any key index for
\* each element of svgList.
Draws == [1..Len(svgList) -> KeyIndexes]

\* The draws getAllSvgs(options) makes: Math.random is called in the random
\* branch only.
DrawsOf(options) == IF ExplicitStyling(options) THEN {<<>>} ELSE Draws

\* The options getAllSvgs is called with: every combination of fields beside
\* a color, and without a color the complete gradient specification and the
\* ways to fall short of it: nothing asked, gradient=false, a colour missing
\* and a colour empty.
AllSvgsOptions ==
  {o \in CallOptions : Truthy(o, "color")}
    \cup { <<>>,
           [gradient |-> FALSE, gradientStartColor |-> "red", size |-> 24],
           [gradient |-> FALSE, gradientStartColor |-> "red",
            gradientStopColor |-> "yellow"],
           [color |-> "", gradient |-> TRUE, gradientStartColor |-> "red"],
           [size |-> 0, gradient |-> TRUE, gradientStartColor |-> "",
            gradientStopColor |-> "yellow"],
           [gradient |-> TRUE, gradientStartColor |-> "red",
            gradientStopColor |-> "yellow"],
           [color |-> "", size |-> 24, gradient |-> TRUE,
            gradientStartColor |-> "red", gradientStopColor |-> "yellow"] }

\* getMergedOptions applied on its own to a caller's options.
MergeOptions(options) ==
  /\ last.op = "none"
  /\ last' = [NoCall EXCEPT !.op = "getMergedOptions", !.options = options,
                            !.merged = << getMergedOptions(options) >>]
  /\ UNCHANGED <<gradientIdCounter, issued, nMarkups, nLookupFailures>>

\* getMergedOptions applied to the record it returned last.
MergeAgain ==
  /\ last.op \in {"getMergedOptions", "getMergedOptions again"}
  /\ last' = [NoCall EXCEPT !.op = "getMergedOptions again",
                            !.options = last.merged[1],
                            !.merged = << getMergedOptions(last.merged[1]) >>]
  /\ UNCHANGED <<gradientIdCounter, issued, nMarkups, nLookupFailures>>

(***************************************************************************)
(* Specifications.                                                         *)
(***************************************************************************)

\* Any sequence of calls.
Next ==
  \/ \E options \in SomeOptions, r \in 0..(Len(svgList) - 1) :
       GetRandomSvg(options, r)
  \/ \E o \in SomeOptions : \E options \in SomeWithId(o) : GetSvgById(options)
  \/ \E options \in SomeOptions : \E draws \in DrawsOf(options) :
       GetAllSvgs(options, draws)

Spec == Init /\ [][Next]_vars

\* One call from the initial state, over every combination of arguments.
NextCall ==
  \/ /\ last.op = "none"
     /\ \E options \in CallOptions, r \in 0..(Len(svgList) - 1) :
          GetRandomSvg(options, r)
  \/ /\ last.op = "none"
     /\ \E o \in CallOptions : \E options \in WithId(o) : GetSvgById(options)
  \/ /\ last.op = "none"
     /\ \E options \in AllSvgsOptions : \E draws \in DrawsOf(options) :
          GetAllSvgs(options, draws)

SpecCall == Init /\ [][NextCall]_vars

\* getMergedOptions as a pure function of the caller's options.
NextMerge ==
  \/ \E o \in AllOptions : \E options \in WithId(o) : MergeOptions(options)
  \/ MergeAgain

SpecMerge == Init /\ [][NextMerge]_vars

(***************************************************************************)
(* Claims.                                                                 *)
(***************************************************************************)

\* The caller supplied key k with a value other than the empty string.
Supplied(o, k) == k \in DOMAIN o /\ (k \in StringKeys => o[k] /= "")

\* The value the data model resolves key k to: the caller's when supplied,
\* the default otherwise.
Resolved(o, k) ==
  IF Supplied(o, k)
    THEN o[k]
    ELSE CASE k = "color" -> "blue"
           [] k = "size" -> 16
           [] k = "gradient" -> FALSE
           [] k = "gradientStartColor" -> "blue"
           [] k = "gradientStopColor" -> "lightblue"

\* The caller asked for explicit styling: a non-empty color, or gradient=true
\* with non-empty start and stop colours.
AsksExplicitStyling(o) ==
  \/ Supplied(o, "color")
  \/ /\ "gradient" \in DOMAIN o /\ o.gradient = TRUE
     /\ Supplied(o, "gradientStartColor")
     /\ Supplied(o, "gradientStopColor")

\* The colours of the two stops of m's gradient.
StartColor(m) ==
  QuotedAt(m, IndexOf(m, "offset=\"5%\" stop-color=\"", 1) + 24)

StopColor(m) ==
  QuotedAt(m, IndexOf(m, "offset=\"95%\" stop-color=\"", 1) + 25)

Placeholders == {"${color}", "${width}", "${height}"}

\* m is sized size by size.
Sized(m, size) ==
  /\ AttributeValues(m, " width=") = {ToString(size)}
  /\ AttributeValues(m, " height=") = {ToString(size)}

\* C1: the gradient-bearing strings returned so far carry pairwise different
\* gradient identifiers, each exactly one, and in every string of the last
\* result that bears a gradient the fill reference url(#grad-<n>) names the
\* identifier of the string's own linearGradient definition, a grad-<n> minted
\* from the counter.
C1_UniqueGradientIds ==
  /\ \A i \in 1..Len(issued) : Cardinality(issued[i]) = 1
  /\ \A i \in 1..Len(issued) : \A j \in 1..Len(issued) :
       i /= j => issued[i] \cap issued[j] = {}
  /\ \A i \in 1..Len(last.result) :
       LET m == last.result[i]
           ids == GradientIds(m)
       IN  ids /= {} =>
             /\ Count(m, "<linearGradient") = 1
             /\ Cardinality(ids) = 1
             /\ ids \subseteq {GradientId(n) : n \in 0..(gradientIdCounter - 1)}
             /\ PaintValues(m) = {UrlRef(g) : g \in ids}

\* One getAllSvgs call returned three gradient-bearing strings.
C1_Witness ==
  /\ Len(issued) >= 3
  /\ last.op = "getAllSvgs"
  /\ \A i \in 1..Len(last.result) : GradientBearing(last.result[i])

\* The id is a string of decimal digits.
Numeral(id) == id /= "" /\ \A i \in 1..Len(id) : IsDigit(CharAt(id, i))

\* C2: a getSvgById call whose id is the numeral of an integer k with
\* 1 <= k <= N succeeds and returns markup built from the template stored
\* under key k of the catalogue.
C2_IdSelectsKey ==
  (/\ last.op = "getSvgById"
   /\ "id" \in DOMAIN last.options
   /\ Numeral(last.options.id)
   /\ ParseDigits(last.options.id, 0) \in 1..CatalogueSize)
  => /\ last.status = "ok"
     /\ Len(last.result) = 1
     /\ Shape(last.result[1]) = Shape(svgMap[ParseDigits(last.options.id, 0)])

\* The id of the call names an element of svgList: it is there, not empty, a
\* number, and that number is one of the indexes 0..N-1.
NamesElement(o) ==
  /\ "id" \in DOMAIN o
  /\ o.id /= ""
  /\ ~parseInt(o.id).nan
  /\ parseInt(o.id).n \in 0..(CatalogueSize - 1)

\* C3: a getSvgById call either returns one markup string or fails with
\* "Invalid ID" and returns nothing, no other error and no other value; and it
\* fails so exactly when the id is absent, empty, not a number, or a number
\* outside the indexes 0..N-1 of the catalogue.
C3_InvalidIdOnly ==
  last.op = "getSvgById" =>
    /\ last.status \in {"ok", "Invalid ID"}
    /\ last.status = "ok" => Len(last.result) = 1
    /\ last.status = "Invalid ID" => last.result = <<>>
    /\ last.status = "Invalid ID" <=> ~NamesElement(last.options)

\* A call whose id is the numeral of N, the first index outside svgList,
\* failed with "Invalid ID".
C3_Witness ==
  /\ last.op = "getSvgById"
  /\ last.status = "Invalid ID"
  /\ "id" \in DOMAIN last.options
  /\ Numeral(last.options.id)
  /\ ParseDigits(last.options.id, 0) = CatalogueSize

\* C4: getAllSvgs takes the explicit branch exactly when the caller asked for
\* explicit styling; every element of that branch is rendered with the
\* resolved options of the caller (the same fill or gradient colours and the
\* same size for all), and with only a color supplied every fill is that
\* color and no element holds a gradient definition.
C4_ExplicitBranch ==
  last.op = "getAllSvgs" =>
    LET o == last.options
    IN  /\ last.branch = "explicit" <=> AsksExplicitStyling(o)
        /\ last.branch = "explicit" =>
             \A i \in 1..Len(last.result) :
               LET m == last.result[i]
                   ids == GradientIds(m)
                   paint == PaintValues(m)
               IN  /\ \A k \in DOMAIN defaultOptions :
                        last.merged[i][k] = Resolved(o, k)
                   /\ ids /= {} <=> Resolved(o, "gradient")
                   /\ ids /= {} =>
                        /\ StartColor(m) = Resolved(o, "gradientStartColor")
                        /\ StopColor(m) = Resolved(o, "gradientStopColor")
                        /\ paint = {UrlRef(g) : g \in ids}
                   /\ ids = {} => paint = {Resolved(o, "color")}
                   /\ Resolved(o, "size") > 0 => Sized(m, Resolved(o, "size"))
                   /\ AttributeValues(m, " width=")
                        = AttributeValues(last.result[1], " width=")
        /\ (DOMAIN o = {"color"} /\ o.color /= "") =>
             \A i \in 1..Len(last.result) :
               /\ PaintValues(last.result[i]) = {o.color}
               /\ ~GradientBearing(last.result[i])

\* The eight (start, stop) pairs of ColorPairingMap.
Pairings == {ColorPairingMap[k] : k \in DOMAIN ColorPairingMap}

\* C5: when the caller of getAllSvgs did not ask for explicit styling, every
\* element bears a gradient whose (start, stop) colours are one of the eight
\* pairs of ColorPairingMap, and is sized by the caller's size when one (a
\* positive number, as the data model has it) is supplied and by 16 when none
\* is.
C5_RandomBranch ==
  (last.op = "getAllSvgs" /\ ~AsksExplicitStyling(last.options)) =>
    /\ last.branch = "random"
    /\ \A i \in 1..Len(last.result) :
         LET m == last.result[i]
             ids == GradientIds(m)
         IN  /\ ids /= {}
             /\ << StartColor(m), StopColor(m) >> \in Pairings
             /\ PaintValues(m) = {UrlRef(g) : g \in ids}
             /\ "size" \notin DOMAIN last.options => Sized(m, 16)
             /\ ("size" \in DOMAIN last.options /\ last.options.size > 0)
                  => Sized(m, last.options.size)

\* getAllSvgs was called with gradient=false, a lone gradientStartColor and a
\* size, and two elements of the result got different pairs.
C5_Witness ==
  /\ last.op = "getAllSvgs"
  /\ last.branch = "random"
  /\ DOMAIN last.options = {"gradient", "gradientStartColor", "size"}
  /\ last.options.gradient = FALSE
  /\ last.options.gradientStartColor /= ""
  /\ last.options.size > 0
  /\ StartColor(last.result[1]) /= StartColor(last.result[2])

\* C6: getAllSvgs returns exactly N strings and the i-th is rendered from the
\* catalogue template of key i, in both branches.
C6_OnePerTemplateInOrder ==
  last.op = "getAllSvgs" =>
    /\ Len(last.result) = CatalogueSize
    /\ \A i \in 1..CatalogueSize :
         LET shape == Shape(last.result[i])
         IN  Cardinality(shape) = 1 /\ shape = Shape(svgMap[i])
    /\ \A i \in 1..CatalogueSize : \A j \in 1..CatalogueSize :
         i /= j => Shape(svgMap[i]) /= Shape(svgMap[j])

\* getAllSvgs returned from its random branch.
C6_Witness ==
  /\ last.op = "getAllSvgs"
  /\ last.branch = "random"
  /\ Len(last.result) = CatalogueSize
  /\ CatalogueSize >= 3

\* C7: the root element of every returned string carries exactly one viewBox:
\* the template's own when the template's root element has one, and
\* "0 0 200 200" when it has none, also when a viewBox occurs elsewhere in the
\* template.
C7_RootViewBox ==
  \A i \in 1..Len(last.result) :
    LET t == SvgListAt(last.src[i])
        m == last.result[i]
    IN  /\ Count(RootTag(m), " viewBox=") = 1
        /\ AttributeValues(RootTag(m), " viewBox=") =
             IF Count(RootTag(t), " viewBox=") > 0
               THEN AttributeValues(RootTag(t), " viewBox=")
               ELSE {"0 0 200 200"}

\* C8: no returned string holds a placeholder token: every ${color} of the
\* template is replaced by the fill value (the reference to the string's own
\* gradient, or the resolved color) and every ${width} and ${height} by the
\* resolved size, for the positive sizes of the data model.
C8_NoPlaceholderLeft ==
  \A i \in 1..Len(last.result) :
    LET t == SvgListAt(last.src[i])
        m == last.result[i]
        g == last.merged[i]
        fills == Positions(m, " fill=\"", 1)
        strokes == Positions(m, " stroke=\"", 1)
        paint == {QuotedAt(m, k + 7) : k \in fills}
                   \cup {QuotedAt(m, k + 9) : k \in strokes}
    IN  /\ \A p \in Placeholders : ~Includes(m, p)
        /\ Cardinality(paint) = 1
        /\ paint =
             IF g.gradient THEN {UrlRef(GradientId(gradientIdCounter
                                                   - Len(last.result) + i - 1))}
                           ELSE {g.color}
        /\ Cardinality(fills) + Cardinality(strokes) = Count(t, "${color}")
        /\ g.size > 0 => Sized(m, g.size)

\* C9 as stated: the counter equals the number of gradient-bearing strings
\* produced so far.
C9_CountsGradientRenders == gradientIdCounter = Len(issued)

\* C9: the counter starts at 0 and is incremented once per render, bearing a
\* gradient or not: it equals the number of strings returned plus the number
\* of getSvgById calls that failed on a non-empty id, it is never below the
\* number of gradient-bearing strings, it never decreases, and only a
\* getSvgById call without an id (absent or empty) leaves it unchanged.
C9_CountsRenders ==
  /\ [](/\ gradientIdCounter = nMarkups + nLookupFailures
        /\ gradientIdCounter >= Len(issued)
        /\ last.op = "none" => gradientIdCounter = 0)
  /\ [][/\ gradientIdCounter' >= gradientIdCounter
        /\ gradientIdCounter' = gradientIdCounter =>
             /\ last'.op = "getSvgById"
             /\ last'.status = "Invalid ID"
             /\ ~Truthy(last'.options, "id")]_vars

\* A render without a gradient and a failed lookup both advanced the counter
\* past the number of gradient-bearing strings.
C9_Witness ==
  /\ nLookupFailures >= 1
  /\ nMarkups > Len(issued)
  /\ Len(issued) >= 1
  /\ gradientIdCounter = nMarkups + nLookupFailures

\* C10: getMergedOptions returns a record holding each of the five fields,
\* with the caller's value when that is neither undefined nor the empty
\* string (gradient=false and size 0 included) and the default otherwise;
\* merging a record that holds exactly the five fields, none empty, and
\* merging a merged record again, return the record unchanged.
C10_MergeResolves ==
  last.op \in {"getMergedOptions", "getMergedOptions again"} =>
    LET o == last.options
        m == last.merged[1]
    IN  /\ DOMAIN defaultOptions \subseteq DOMAIN m
        /\ \A k \in DOMAIN defaultOptions : m[k] = Resolved(o, k)
        /\ ( /\ DOMAIN o = DOMAIN defaultOptions
             /\ \A k \in DOMAIN o : Supplied(o, k) ) => m = o
        /\ last.op = "getMergedOptions again" => m = o

\* A merged record that holds the default color beside a caller's
\* gradient=false, size 0 and start colour was merged again.
C10_Witness ==
  /\ last.op = "getMergedOptions again"
  /\ last.options.color = "blue"
  /\ last.options.gradient = FALSE
  /\ last.options.gradientStartColor = "red"
  /\ last.options.size = 0

====
